---- MODULE Spec2Model ----
(***************************************************************************)
(* Orchestration layer of the Intelligent Knowledge Aggregation Platform:  *)
(* the task store (coordinator/task_queue.py), the agent registry          *)
(* (coordinator/agent_manager.py) and the control loop and event handler   *)
(* of the coordinator (coordinator/main.py).                               *)
(*                                                                         *)
(* The coordinator runs on one asyncio event loop.  A coroutine runs       *)
(* without interruption until it awaits real I/O; the only such awaits in  *)
(* the modelled code are the publishes on the message broker, the sleeps   *)
(* and the work of _route_task_to_agent.  Every action below is the code   *)
(* of one coroutine from one suspension point to the next.                 *)
(***************************************************************************)
EXTENDS Integers, Sequences, FiniteSets, Bags, TLC

\* ---------------------------------------------------------------- bounds
\* the id universes: no specification allocates more agents or tasks
MaxAgents == 2
MaxTasks == 2
\* seconds the clock advances in one step
TickSeconds == 300

\* Spec: one agent, two tasks, every operation
SpecRetries == 2
SpecTicks == 1

\* SpecPool: two agents of one pool and one task
PoolTasks == 1
PoolRetries == 2
PoolTicks == 1
PoolStops == 1
SpecStops == 1
SpecAgents == 1

\* SpecSweep: one agent, one task, a clock that runs past the heartbeat timeout
SweepTasks == 1
SweepAgents == 1
SweepTicks == 1

\* SpecPass: two agents of one pool, two tasks, a clock that stands still
PassTasks == 2
PassAgents == 2
PassStops == 1
MaxEnvelopes == 2
PublishTasks == 1
PublishAgents == 1
PublishRetries == 1
PublishTicks == 1
PublishStops == 1

\* ------------------------------------------------------- program constants
health_check_interval == 300
HeartbeatTimeout == 60
prefetch_count == 10

STARTING == "starting"
RUNNING == "running"
BUSY == "busy"
IDLE == "idle"
ERROR == "error"
STOPPING == "stopping"
STOPPED == "stopped"

AgentStates == {STARTING, RUNNING, BUSY, IDLE, ERROR, STOPPING, STOPPED}

\* The keys of AgentManager.agents, in the order of the dict literal
\* (two of the five pools are modelled).
PoolTypes == <<"scraper", "processor">>

\* Task types a caller submits: two of the mapped ones and one that the
\* mapping does not know.
TaskTypes == {"scrape_web", "process_text", "search"}
\* the task types among them that are keys of the task-type -> agent-type mapping
MappedTaskTypes == {"scrape_web", "process_text"}

AgentIds == 1..MaxAgents
TaskIds == 1..MaxTasks
None == 0
NoValue == "None"
AgentFailure == "Agent failure"
ExecutionError == "ExecutionError"
Result == "result"

VARIABLES
    tq,       \* the TaskQueue object
    am,       \* the AgentManager object
    events,   \* task.completed / task.failed messages on the coordinator's event queue
    now,      \* wall clock, seconds
    main,     \* Coordinator._main_loop: where it is suspended and its locals
    workers,  \* bag of _process_task_real tasks
    stops,    \* stop_agent calls that are suspended
    starts,   \* start_agent calls that are suspended
    call,     \* the operation the last step executed, its arguments and its result
    broker    \* the work queues of the MessageBroker and their consumers

vars == <<tq, am, events, now, main, workers, stops, starts, call, broker>>

\* ---------------------------------------------------------------- helpers
Range(s) == {s[i] : i \in DOMAIN s}

Last(s) == s[Len(s)]

RECURSIVE RemoveFirst(_, _)
\* list.remove(x): removes the first occurrence
RemoveFirst(s, x) ==
    IF s = <<>> THEN <<>>
    ELSE IF Head(s) = x THEN Tail(s)
    ELSE <<Head(s)>> \o RemoveFirst(Tail(s), x)

\* dict without a key
DictDel(f, k) == [x \in (DOMAIN f) \ {k} |-> f[x]]

\* dict with a key set
DictPut(f, k, v) == [x \in (DOMAIN f) \cup {k} |-> IF x = k THEN v ELSE f[x]]

RECURSIVE CountOf(_, _)
CountOf(s, x) ==
    IF s = <<>> THEN 0
    ELSE (IF Head(s) = x THEN 1 ELSE 0) + CountOf(Tail(s), x)

RECURSIVE SumRetries(_, _)
\* number of retries performed so far: the 'pending' entries of the histories
\* beyond the first one of each task
SumRetries(hist, n) ==
    IF n = 0 THEN 0
    ELSE (IF n \in DOMAIN hist THEN CountOf(hist[n], "pending") - 1 ELSE 0)
         + SumRetries(hist, n - 1)

Call(op, a, t, ret, pre) == [op |-> op, agent |-> a, task |-> t, ret |-> ret, pre |-> pre]

\* a step that is no call of an operation
NoCall == Call("none", None, None, FALSE, NoValue)

\* ------------------------------------------------------------- task store
_map_task_type_to_agent(task_type) ==
    CASE task_type = "scrape_web" -> "scraper"
      [] task_type = "process_text" -> "processor"
      [] OTHER -> task_type

TQ_init ==
    [pending_tasks |-> <<>>, processing_tasks |-> {}, completed_tasks |-> {},
     failed_tasks |-> {}, tasks |-> <<>>, task_history |-> <<>>, lock |-> FALSE]

\* The id build_task_id returns: a fresh one
NewTaskId(q) == Len(q.task_history) + 1

TQ_add_task(q, task_type) ==
    LET task_id == NewTaskId(q)
        task == [type |-> task_type, status |-> "pending",
                 agent_type |-> _map_task_type_to_agent(task_type),
                 assigned_to |-> None, result |-> NoValue, error |-> NoValue]
    IN [q EXCEPT !.tasks = Append(@, task),
                 !.pending_tasks = Append(@, task_id),
                 !.task_history = Append(@, <<"pending">>)]

_assign_task(q, task_id, agent_id) ==
    IF task_id \notin Range(q.pending_tasks) THEN q
    ELSE [q EXCEPT !.tasks[task_id].status = "processing",
                   !.tasks[task_id].assigned_to = agent_id,
                   !.processing_tasks = @ \cup {task_id},
                   !.pending_tasks = RemoveFirst(@, task_id),
                   !.task_history[task_id] = Append(@, "processing")]

\* mutant: complete_task that completes a task from pending_tasks as well
TQ_complete_task_pending(q, task_id, result) ==
    IF task_id \notin q.processing_tasks \cup Range(q.pending_tasks) THEN q
    ELSE [q EXCEPT !.tasks[task_id].status = "completed",
                   !.tasks[task_id].result = result,
                   !.completed_tasks = @ \cup {task_id},
                   !.processing_tasks = @ \ {task_id},
                   !.pending_tasks = RemoveFirst(@, task_id),
                   !.task_history[task_id] = Append(@, "completed")]

\* mutant: complete_task that does not write the history
TQ_complete_task_unlogged(q, task_id, result) ==
    IF task_id \notin q.processing_tasks THEN q
    ELSE [q EXCEPT !.tasks[task_id].status = "completed",
                   !.tasks[task_id].result = result,
                   !.completed_tasks = @ \cup {task_id},
                   !.processing_tasks = @ \ {task_id}]

TQ_complete_task(q, task_id, result) ==
    IF task_id \notin q.processing_tasks THEN q
    ELSE [q EXCEPT !.tasks[task_id].status = "completed",
                   !.tasks[task_id].result = result,
                   !.completed_tasks = @ \cup {task_id},
                   !.processing_tasks = @ \ {task_id},
                   !.task_history[task_id] = Append(@, "completed")]

\* mutant: fail_task that copies the task to failed_tasks and leaves it where it was
TQ_fail_task_copy(q, task_id, error) ==
    IF task_id \in Range(q.pending_tasks) \/ task_id \in q.processing_tasks THEN
        [q EXCEPT !.tasks[task_id].status = "failed",
                  !.tasks[task_id].error = error,
                  !.failed_tasks = @ \cup {task_id},
                  !.task_history[task_id] = Append(@, "failed")]
    ELSE q

\* mutant: fail_task that fails a completed task as well
TQ_fail_task_terminal(q, task_id, error) ==
    IF task_id \in Range(q.pending_tasks) THEN
        [q EXCEPT !.pending_tasks = RemoveFirst(@, task_id),
                  !.tasks[task_id].status = "failed",
                  !.tasks[task_id].error = error,
                  !.failed_tasks = @ \cup {task_id},
                  !.task_history[task_id] = Append(@, "failed")]
    ELSE IF task_id \in q.processing_tasks \cup q.completed_tasks THEN
        [q EXCEPT !.processing_tasks = @ \ {task_id},
                  !.completed_tasks = @ \ {task_id},
                  !.tasks[task_id].status = "failed",
                  !.tasks[task_id].error = error,
                  !.failed_tasks = @ \cup {task_id},
                  !.task_history[task_id] = Append(@, "failed")]
    ELSE q

TQ_fail_task(q, task_id, error) ==
    IF task_id \in Range(q.pending_tasks) THEN
        [q EXCEPT !.pending_tasks = RemoveFirst(@, task_id),
                  !.tasks[task_id].status = "failed",
                  !.tasks[task_id].error = error,
                  !.failed_tasks = @ \cup {task_id},
                  !.task_history[task_id] = Append(@, "failed")]
    ELSE IF task_id \in q.processing_tasks THEN
        [q EXCEPT !.processing_tasks = @ \ {task_id},
                  !.tasks[task_id].status = "failed",
                  !.tasks[task_id].error = error,
                  !.failed_tasks = @ \cup {task_id},
                  !.task_history[task_id] = Append(@, "failed")]
    ELSE q

TQ_retry_ok(q, task_id) == task_id \in q.failed_tasks

\* mutant: retry_task that keeps the agent the task was assigned to
TQ_retry_task_keeps_agent(q, task_id) ==
    IF ~TQ_retry_ok(q, task_id) THEN q
    ELSE [q EXCEPT !.tasks[task_id].status = "pending",
                   !.tasks[task_id].error = NoValue,
                   !.pending_tasks = Append(@, task_id),
                   !.failed_tasks = @ \ {task_id},
                   !.task_history[task_id] = Append(@, "pending")]

\* mutant: retry_task that also takes a completed task back
TQ_retry_task_any(q, task_id) ==
    IF task_id \notin q.failed_tasks \cup q.completed_tasks THEN q
    ELSE [q EXCEPT !.tasks[task_id].status = "pending",
                   !.tasks[task_id].error = NoValue,
                   !.tasks[task_id].assigned_to = None,
                   !.pending_tasks = Append(@, task_id),
                   !.failed_tasks = @ \ {task_id},
                   !.completed_tasks = @ \ {task_id},
                   !.task_history[task_id] = Append(@, "pending")]

\* TaskQueue.get_task_status: the task is looked up in the four partitions;
\* the result is reported only with the status 'completed', the error only
\* with the status 'failed'
get_task_status(q, task_id) ==
    IF task_id \notin Range(q.pending_tasks) \cup q.processing_tasks
                       \cup q.completed_tasks \cup q.failed_tasks
    THEN [id |-> task_id, status |-> "not_found"]
    ELSE LET task == q.tasks[task_id]
         IN [id |-> task_id, status |-> task.status, type |-> task.type,
             assigned_to |-> task.assigned_to,
             result |-> IF task.status = "completed" THEN task.result ELSE NoValue,
             error |-> IF task.status = "failed" THEN task.error ELSE NoValue,
             history |-> q.task_history[task_id]]

\* mutant: retry_task that keeps the error of the failed attempt
TQ_retry_task_keeps_error(q, task_id) ==
    IF ~TQ_retry_ok(q, task_id) THEN q
    ELSE [q EXCEPT !.tasks[task_id].status = "pending",
                   !.tasks[task_id].assigned_to = None,
                   !.pending_tasks = Append(@, task_id),
                   !.failed_tasks = @ \ {task_id},
                   !.task_history[task_id] = Append(@, "pending")]

TQ_retry_task(q, task_id) ==
    IF ~TQ_retry_ok(q, task_id) THEN q
    ELSE [q EXCEPT !.tasks[task_id].status = "pending",
                   !.tasks[task_id].error = NoValue,
                   !.tasks[task_id].assigned_to = None,
                   !.pending_tasks = Append(@, task_id),
                   !.failed_tasks = @ \ {task_id},
                   !.task_history[task_id] = Append(@, "pending")]

pending_count(q) == Len(q.pending_tasks)
processing_count(q) == Cardinality(q.processing_tasks)
completed_count(q) == Cardinality(q.completed_tasks)
failed_count(q) == Cardinality(q.failed_tasks)

\* --------------------------------------------------------- agent registry
AM_init == [agents |-> <<>>, agent_tasks |-> <<>>, last_health_check |-> 0, next_id |-> 0]

Registered(m, agent_id) == agent_id \in DOMAIN m.agents

_update_agent_state(m, agent_id, state) ==
    IF ~Registered(m, agent_id) THEN m
    ELSE [m EXCEPT !.agents[agent_id].state = state]

RECURSIVE IdleFrom(_, _, _)
IdleFrom(m, agent_type, i) ==
    IF i > MaxAgents + 1 THEN <<>>
    ELSE (IF Registered(m, i) /\ m.agents[i].type = agent_type /\ m.agents[i].state = IDLE
          THEN <<i>> ELSE <<>>) \o IdleFrom(m, agent_type, i + 1)

get_available_agents(m, agent_type) ==
    IF agent_type \notin Range(PoolTypes) THEN <<>>
    ELSE IdleFrom(m, agent_type, 1)

\* mutant: assign_task that accepts a busy agent
AM_assign_task_busy(m, agent_id, task_id) ==
    IF ~Registered(m, agent_id) THEN [am |-> m, ret |-> FALSE]
    ELSE IF m.agents[agent_id].state \notin {IDLE, RUNNING, BUSY} THEN [am |-> m, ret |-> FALSE]
    ELSE LET m1 == [m EXCEPT !.agents[agent_id].current_tasks = Append(@, task_id)]
             m2 == [m1 EXCEPT !.agent_tasks =
                        DictPut(@, agent_id,
                                (IF agent_id \in DOMAIN @ THEN @[agent_id] ELSE {}) \cup {task_id})]
         IN [am |-> _update_agent_state(m2, agent_id, BUSY), ret |-> TRUE]

\* assign_task up to its first suspension (the publish of agent.state_changed)
AM_assign_task(m, agent_id, task_id) ==
    IF ~Registered(m, agent_id) THEN [am |-> m, ret |-> FALSE]
    ELSE IF m.agents[agent_id].state \notin {IDLE, RUNNING} THEN [am |-> m, ret |-> FALSE]
    ELSE LET m1 == [m EXCEPT !.agents[agent_id].current_tasks = Append(@, task_id)]
             m2 == [m1 EXCEPT !.agent_tasks =
                        DictPut(@, agent_id,
                                (IF agent_id \in DOMAIN @ THEN @[agent_id] ELSE {}) \cup {task_id})]
         IN [am |-> _update_agent_state(m2, agent_id, BUSY), ret |-> TRUE]

\* mutant: complete_task without the check that the agent holds the task
AM_complete_task_unchecked(m, agent_id, task_id) ==
    IF ~Registered(m, agent_id) THEN [am |-> m, ret |-> FALSE]
    ELSE LET m1 == [m EXCEPT !.agents[agent_id].current_tasks = RemoveFirst(@, task_id)]
             m2 == IF agent_id \in DOMAIN m1.agent_tasks
                   THEN [m1 EXCEPT !.agent_tasks[agent_id] = @ \ {task_id}]
                   ELSE m1
             m3 == IF m2.agents[agent_id].current_tasks = <<>>
                   THEN _update_agent_state(m2, agent_id, IDLE)
                   ELSE m2
         IN [am |-> m3, ret |-> TRUE]

\* complete_task up to its first suspension
AM_complete_task(m, agent_id, task_id) ==
    IF ~Registered(m, agent_id) THEN [am |-> m, ret |-> FALSE]
    ELSE IF task_id \notin Range(m.agents[agent_id].current_tasks) THEN [am |-> m, ret |-> FALSE]
    ELSE LET m1 == [m EXCEPT !.agents[agent_id].current_tasks = RemoveFirst(@, task_id)]
             m2 == IF agent_id \in DOMAIN m1.agent_tasks
                   THEN [m1 EXCEPT !.agent_tasks[agent_id] = @ \ {task_id}]
                   ELSE m1
             m3 == IF m2.agents[agent_id].current_tasks = <<>>
                   THEN _update_agent_state(m2, agent_id, IDLE)
                   ELSE m2
         IN [am |-> m3, ret |-> TRUE]

\* fail_task up to its first suspension
AM_fail_task(m, agent_id, task_id) ==
    IF ~Registered(m, agent_id) THEN [am |-> m, ret |-> FALSE]
    ELSE IF task_id \notin Range(m.agents[agent_id].current_tasks) THEN [am |-> m, ret |-> FALSE]
    ELSE LET m1 == [m EXCEPT !.agents[agent_id].current_tasks = RemoveFirst(@, task_id)]
             m2 == IF agent_id \in DOMAIN m1.agent_tasks
                   THEN [m1 EXCEPT !.agent_tasks[agent_id] = @ \ {task_id}]
                   ELSE m1
             m3 == IF m2.agents[agent_id].current_tasks = <<>>
                   THEN _update_agent_state(m2, agent_id, IDLE)
                   ELSE m2
         IN [am |-> m3, ret |-> TRUE]

\* mutant: a heartbeat that sets an agent in ERROR to IDLE whatever it holds
update_heartbeat_idle(m, agent_id, t) ==
    IF ~Registered(m, agent_id) THEN m
    ELSE LET m1 == [m EXCEPT !.agents[agent_id].last_heartbeat = t]
         IN IF m1.agents[agent_id].state = ERROR
            THEN _update_agent_state(m1, agent_id, IDLE)
            ELSE m1

update_heartbeat(m, agent_id, t) ==
    IF ~Registered(m, agent_id) THEN m
    ELSE LET m1 == [m EXCEPT !.agents[agent_id].last_heartbeat = t]
         IN IF m1.agents[agent_id].state = ERROR
            THEN IF m1.agents[agent_id].current_tasks # <<>>
                 THEN _update_agent_state(m1, agent_id, BUSY)
                 ELSE _update_agent_state(m1, agent_id, IDLE)
            ELSE m1

TaskEvent(type, task_id, agent_id, payload) ==
    [type |-> type, task_id |-> task_id, agent_id |-> agent_id, payload |-> payload]

\* a publish helper that lets the exception of publish_event through
_safe_publish_event_raises(ok) == ok

\* _safe_publish_event returns to the operation that awaits it: it does so
\* when publish_event succeeded (ok) and, the exception being caught and
\* logged, when it raised
_safe_publish_event(ok) == TRUE

\* _safe_publish_event of a task event: the message reaches the queue of the
\* coordinator's subscription, or the publish raises and the event is dropped
Publish(q, e, ok) == IF ok THEN Append(q, e) ELSE q

\* ------------------------------------------------- coordinator, atomic steps
\* Coordinator.submit_task -> TaskQueue.add_task: waits for the lock
SubmitTask(B, task_type) ==
    /\ ~tq.lock
    /\ Len(tq.task_history) < B.tasks
    /\ tq' = TQ_add_task(tq, task_type)
    /\ call' = Call("add_task", None, NewTaskId(tq), TRUE, task_type)
    /\ UNCHANGED <<am, events, now, main, workers, stops, starts, broker>>

\* mutant: _handle_task_event whose complete_task / fail_task do not wait for
\* the lock
HandleTaskEvent_unlocked ==
    /\ events # <<>>
    /\ LET e == Head(events)
       IN /\ tq' = IF e.type = "task.completed"
                   THEN TQ_complete_task(tq, e.task_id, e.payload)
                   ELSE TQ_fail_task(tq, e.task_id, e.payload)
          /\ call' = Call(e.type, e.agent_id, e.task_id, FALSE, e.payload)
    /\ events' = Tail(events)
    /\ UNCHANGED <<am, now, main, workers, stops, starts, broker>>

\* on_message of subscribe_to_events -> Coordinator._handle_task_event:
\* the oldest message of the queue is handed to complete_task / fail_task,
\* which wait for the lock
HandleTaskEvent ==
    /\ events # <<>>
    /\ ~tq.lock
    /\ LET e == Head(events)
       IN /\ tq' = IF e.type = "task.completed"
                   THEN TQ_complete_task(tq, e.task_id, e.payload)
                   ELSE TQ_fail_task(tq, e.task_id, e.payload)
          /\ call' = Call(e.type, e.agent_id, e.task_id, FALSE, e.payload)
    /\ events' = Tail(events)
    /\ UNCHANGED <<am, now, main, workers, stops, starts, broker>>

\* TaskQueue.retry_task, called by an operator
RetryTask(B, task_id) ==
    /\ ~tq.lock
    /\ SumRetries(tq.task_history, MaxTasks) < B.retries
    /\ tq' = TQ_retry_task(tq, task_id)
    /\ call' = Call("retry_task", None, task_id, TQ_retry_ok(tq, task_id), NoValue)
    /\ UNCHANGED <<am, events, now, main, workers, stops, starts, broker>>

\* the clock advances
Tick(B) ==
    /\ now < B.ticks * TickSeconds
    /\ now' = now + TickSeconds
    /\ call' = NoCall
    /\ UNCHANGED <<tq, am, events, main, workers, stops, starts, broker>>

\* ------------------------------------------------------ agent registry steps
\* AgentManager.update_heartbeat; ok: the publish of agent.state_changed, made
\* when the agent leaves ERROR, succeeds
UpdateHeartbeat(agent_id, ok) ==
    /\ _safe_publish_event(ok)
    /\ am' = update_heartbeat(am, agent_id, now)
    /\ call' = Call("update_heartbeat", agent_id, None, Registered(am, agent_id),
                    IF Registered(am, agent_id) THEN am.agents[agent_id].state ELSE NoValue)
    /\ UNCHANGED <<tq, events, now, main, workers, stops, starts, broker>>

\* one round of AgentManager._auto_heartbeat, the task start_agent creates
AutoHeartbeat(agent_id) ==
    /\ Registered(am, agent_id)
    /\ agent_id \notin starts
    /\ am.agents[agent_id].state # STOPPED
    /\ am.agents[agent_id].last_heartbeat # now
    /\ am' = [am EXCEPT !.agents[agent_id].last_heartbeat = now]
    /\ call' = NoCall
    /\ UNCHANGED <<tq, events, now, main, workers, stops, starts, broker>>

\* start_agent up to the publish of agent.started
StartAgent(B, agent_type) ==
    /\ am.next_id < B.agents
    /\ LET agent_id == am.next_id + 1
           agent == [type |-> agent_type, state |-> STARTING,
                     last_heartbeat |-> now, current_tasks |-> <<>>]
       IN /\ am' = [am EXCEPT !.agents = DictPut(@, agent_id, agent),
                              !.agent_tasks = DictPut(@, agent_id, {}),
                              !.next_id = agent_id]
          /\ starts' = starts \cup {agent_id}
          /\ call' = Call("start_agent", agent_id, None, FALSE, agent_type)
    /\ UNCHANGED <<tq, events, now, main, workers, stops, broker>>

\* start_agent after the publish (ok: it succeeded): the agent becomes idle,
\* the heartbeat task starts
StartAgentResume(agent_id, ok) ==
    /\ agent_id \in starts
    /\ _safe_publish_event(ok)
    /\ am' = _update_agent_state(am, agent_id, IDLE)
    /\ starts' = starts \ {agent_id}
    /\ call' = Call("start_agent.idle", agent_id, None, TRUE, NoValue)
    /\ UNCHANGED <<tq, events, now, main, workers, stops, broker>>

\* stop_agent calls made so far on a registered agent (agent ids are not reused)
StopsBegun == (am.next_id - Cardinality(DOMAIN am.agents)) + Cardinality(stops)

StopOf(agent_id) == {s \in stops : s.agent = agent_id}

\* stop_agent up to the publishes of agent.state_changed and agent.stopping.
\* One call per agent is in progress at a time (stop_agents stops them in turn).
StopAgent(B, agent_id) ==
    /\ StopOf(agent_id) = {}
    /\ Registered(am, agent_id) => StopsBegun < B.stops
    /\ IF ~Registered(am, agent_id)
       THEN /\ call' = Call("stop_agent", agent_id, None, FALSE, NoValue)
            /\ UNCHANGED <<am, stops>>
       ELSE /\ am' = _update_agent_state(am, agent_id, STOPPING)
            /\ stops' = stops \cup {[agent |-> agent_id, pc |-> "stopping"]}
            /\ call' = Call("stop_agent", agent_id, None, TRUE, am.agents[agent_id].state)
    /\ UNCHANGED <<tq, events, now, main, workers, starts, broker>>

\* mutant: stop_agent that waits until the agent holds no task before it
\* sets STOPPED
StopAgentStopped_waits(agent_id, ok) ==
    /\ [agent |-> agent_id, pc |-> "stopping"] \in stops
    /\ _safe_publish_event(ok)
    /\ am.agents[agent_id].current_tasks = <<>>
    /\ am' = _update_agent_state(am, agent_id, STOPPED)
    /\ stops' = (stops \ StopOf(agent_id)) \cup {[agent |-> agent_id, pc |-> "stopped"]}
    /\ call' = Call("stop_agent.stopped", agent_id, None, TRUE, am.agents[agent_id].state)
    /\ UNCHANGED <<tq, events, now, main, workers, starts, broker>>

\* stop_agent after agent.stopping is published (ok: the publishes succeeded):
\* the state becomes STOPPED
StopAgentStopped(agent_id, ok) ==
    /\ [agent |-> agent_id, pc |-> "stopping"] \in stops
    /\ _safe_publish_event(ok)
    /\ am' = _update_agent_state(am, agent_id, STOPPED)
    /\ stops' = (stops \ StopOf(agent_id)) \cup {[agent |-> agent_id, pc |-> "stopped"]}
    /\ call' = Call("stop_agent.stopped", agent_id, None, TRUE, am.agents[agent_id].state)
    /\ UNCHANGED <<tq, events, now, main, workers, starts, broker>>

\* stop_agent after the second agent.state_changed (ok: the publish
\* succeeded): the agent is removed
StopAgentRemove(agent_id, ok) ==
    /\ [agent |-> agent_id, pc |-> "stopped"] \in stops
    /\ _safe_publish_event(ok)
    /\ am' = [am EXCEPT !.agents = DictDel(@, agent_id),
                        !.agent_tasks = DictDel(@, agent_id)]
    /\ stops' = stops \ StopOf(agent_id)
    /\ call' = Call("stop_agent.removed", agent_id, None, TRUE, am.agents[agent_id].state)
    /\ UNCHANGED <<tq, events, now, main, workers, starts, broker>>

\* --------------------------------------------------------- _process_task_real
Worker(agent_id, task_id, pc) == [agent |-> agent_id, task |-> task_id, pc |-> pc]

\* _process_task_real from its start to the first suspension inside
\* complete_task / fail_task.  raises: _route_task_to_agent raised (it does so
\* when the task data lacks a field).  An agent that is no longer registered
\* makes the lookup raise, and fail_task then finds no agent.
WorkerRun(agent_id, task_id, raises) ==
    LET w == Worker(agent_id, task_id, "run")
        failed == raises \/ ~Registered(am, agent_id)
        r == IF failed THEN AM_fail_task(am, agent_id, task_id)
             ELSE AM_complete_task(am, agent_id, task_id)
    IN /\ BagIn(w, workers)
       /\ am' = r.am
       /\ workers' = IF r.ret
                     THEN (workers (-) SetToBag({w}))
                          (+) SetToBag({Worker(agent_id, task_id,
                                               IF failed THEN "task.failed" ELSE "task.completed")})
                     ELSE workers (-) SetToBag({w})
       /\ call' = Call(IF failed THEN "am.fail_task" ELSE "am.complete_task",
                       agent_id, task_id, r.ret, NoValue)
       /\ UNCHANGED <<tq, events, now, main, stops, starts, broker>>

\* complete_task / fail_task resumed: the task event is published
WorkerPublish(agent_id, task_id, type, ok) ==
    LET w == Worker(agent_id, task_id, type)
    IN /\ type \in {"task.completed", "task.failed"}
       /\ BagIn(w, workers)
       /\ _safe_publish_event(ok)
       /\ events' = Publish(events,
                            TaskEvent(type, task_id, agent_id,
                                      IF type = "task.failed" THEN ExecutionError ELSE Result),
                            ok)
       /\ workers' = workers (-) SetToBag({w})
       /\ call' = NoCall
       /\ UNCHANGED <<tq, am, now, main, stops, starts, broker>>

\* ------------------------------------------------- Coordinator._main_loop
\* The loop is one coroutine: check_agent_health, then process_pending_tasks,
\* then a sleep.  pc says where it is suspended:
\*   "top"        in the sleep
\*   "sweep_err"  check_agent_health, in the publishes after an agent is set to ERROR
\*   "sweep_pub"  _handle_agent_failure, in the publish of a task.failed
\*   "pass"       process_pending_tasks (lock held), in the publishes of assign_task
MainLocals(pc, agent, task, tasks, avail, groups, snap, types, nowc) ==
    [pc |-> pc, agent |-> agent, task |-> task, tasks |-> tasks, avail |-> avail,
     groups |-> groups, snap |-> snap, types |-> types, now |-> nowc]

MainTop == MainLocals("top", None, None, <<>>, <<>>, <<>>, <<>>, <<>>, 0)

MainCall == NoCall

RECURSIVE DistinctTypes(_, _, _)
DistinctTypes(q, ids, seen) ==
    IF ids = <<>> THEN <<>>
    ELSE LET ty == q.tasks[Head(ids)].agent_type
         IN IF ty \in seen THEN DistinctTypes(q, Tail(ids), seen)
            ELSE <<ty>> \o DistinctTypes(q, Tail(ids), seen \cup {ty})

TasksOfType(q, ty) == SelectSeq(q.pending_tasks, LAMBDA id : q.tasks[id].agent_type = ty)

\* the dict tasks_by_agent of process_pending_tasks, in insertion order
tasks_by_agent(q) ==
    LET types == DistinctTypes(q, q.pending_tasks, {})
    IN [i \in 1..Len(types) |-> [agent_type |-> types[i], tasks |-> TasksOfType(q, types[i])]]

RECURSIVE PassRun(_, _, _, _, _, _)
\* process_pending_tasks from the head of the inner loop to the next suspension
\* (assign_task accepted the task) or to the end of the pass (lock released)
PassRun(q, m, tasks, avail, groups, c) ==
    IF tasks = <<>> \/ avail = <<>> THEN
        IF groups = <<>>
        THEN [tq |-> [q EXCEPT !.lock = FALSE], am |-> m, main |-> MainTop, call |-> c]
        ELSE PassRun(q, m, Head(groups).tasks,
                     get_available_agents(m, Head(groups).agent_type), Tail(groups), c)
    ELSE LET task_id == Head(tasks)
             agent_id == Head(avail)
             q1 == _assign_task(q, task_id, agent_id)
             r == AM_assign_task(m, agent_id, task_id)
             c1 == Call("am.assign_task", agent_id, task_id, r.ret,
                        IF Registered(m, agent_id) THEN m.agents[agent_id].state ELSE NoValue)
         IN IF r.ret
            THEN [tq |-> q1, am |-> r.am,
                  main |-> MainLocals("pass", agent_id, task_id, Tail(tasks), Tail(avail),
                                      groups, <<>>, <<>>, 0),
                  call |-> c1]
            ELSE PassRun(q1, m, Tail(tasks), Tail(avail), groups, c1)

\* process_pending_tasks from its start: the lock is taken
process_pending_tasks(q, m, c) ==
    PassRun([q EXCEPT !.lock = TRUE], m, <<>>, <<>>, tasks_by_agent(q), c)

RECURSIVE PoolFrom(_, _, _)
PoolFrom(m, agent_type, i) ==
    IF i > MaxAgents + 1 THEN <<>>
    ELSE (IF Registered(m, i) /\ m.agents[i].type = agent_type THEN <<i>> ELSE <<>>)
         \o PoolFrom(m, agent_type, i + 1)

\* list(pool.items()) of one pool
PoolSnapshot(m, agent_type) == PoolFrom(m, agent_type, 1)

Stale(m, agent_id, nowc) == nowc - m.agents[agent_id].last_heartbeat > HeartbeatTimeout

RECURSIVE SweepRun(_, _, _, _, _)
\* check_agent_health from the head of the inner loop to the next suspension
\* (an agent was set to ERROR); when the sweep ends the scheduling pass starts
SweepRun(q, m, snap, types, nowc) ==
    IF snap = <<>> THEN
        IF types = <<>> THEN process_pending_tasks(q, m, MainCall)
        ELSE SweepRun(q, m, PoolSnapshot(m, Head(types)), Tail(types), nowc)
    ELSE LET agent_id == Head(snap)
         IN IF \/ ~Registered(m, agent_id)
               \/ m.agents[agent_id].state \in {STARTING, STOPPING, STOPPED}
               \/ ~Stale(m, agent_id, nowc)
            THEN SweepRun(q, m, Tail(snap), types, nowc)
            ELSE [tq |-> q, am |-> _update_agent_state(m, agent_id, ERROR),
                  main |-> MainLocals("sweep_err", agent_id, None, <<>>, <<>>, <<>>,
                                      Tail(snap), types, nowc),
                  call |-> Call("health.error", agent_id, None, TRUE, m.agents[agent_id].state)]

\* check_agent_health from its start
check_agent_health(q, m, t) ==
    IF t - m.last_health_check < health_check_interval
    THEN process_pending_tasks(q, m, MainCall)
    ELSE SweepRun(q, [m EXCEPT !.last_health_check = t], <<>>, PoolTypes, t)

Apply(r) ==
    /\ tq' = r.tq
    /\ am' = r.am
    /\ main' = r.main
    /\ call' = r.call

\* the loop wakes up from its sleep
MainLoop ==
    /\ main.pc = "top"
    /\ Apply(check_agent_health(tq, am, now))
    /\ UNCHANGED <<events, now, workers, stops, starts, broker>>

\* _handle_agent_failure starts: the first task.failed is published
SweepHandleFailure(ok) ==
    /\ main.pc = "sweep_err"
    /\ _safe_publish_event(ok)
    /\ LET agent_id == main.agent
           tasks == IF Registered(am, agent_id) THEN am.agents[agent_id].current_tasks ELSE <<>>
       IN IF tasks = <<>>
          THEN /\ Apply(SweepRun(tq, am, main.snap, main.types, main.now))
               /\ UNCHANGED events
          ELSE /\ events' = Publish(events,
                                    TaskEvent("task.failed", Head(tasks), agent_id, AgentFailure), ok)
               /\ main' = [main EXCEPT !.pc = "sweep_pub", !.tasks = Tail(tasks)]
               /\ call' = Call("health.fail", agent_id, Head(tasks), ok, NoValue)
               /\ UNCHANGED <<tq, am>>
    /\ UNCHANGED <<now, workers, stops, starts, broker>>

\* the tasks of the failed agent are cleared
ClearAgentTasks(m, agent_id) ==
    LET m1 == IF Registered(m, agent_id)
              THEN [m EXCEPT !.agents[agent_id].current_tasks = <<>>]
              ELSE m
    IN IF agent_id \in DOMAIN m1.agent_tasks
       THEN [m1 EXCEPT !.agent_tasks[agent_id] = {}]
       ELSE m1

\* _handle_agent_failure resumes: the next task.failed is published, or the
\* held tasks are cleared and the sweep goes on
SweepPublished(ok) ==
    /\ main.pc = "sweep_pub"
    /\ _safe_publish_event(ok)
    /\ IF main.tasks # <<>>
       THEN /\ events' = Publish(events,
                                 TaskEvent("task.failed", Head(main.tasks), main.agent, AgentFailure),
                                 ok)
            /\ main' = [main EXCEPT !.tasks = Tail(@)]
            /\ call' = Call("health.fail", main.agent, Head(main.tasks), ok, NoValue)
            /\ UNCHANGED <<tq, am>>
       ELSE /\ Apply(SweepRun(tq, ClearAgentTasks(am, main.agent), main.snap, main.types, main.now))
            /\ UNCHANGED events
    /\ UNCHANGED <<now, workers, stops, starts, broker>>

\* mutant: an assign_task that waits for the Task Store lock before it goes on
PassResume_reacquires(ok) ==
    /\ main.pc = "pass"
    /\ ~tq.lock
    /\ _safe_publish_event(ok)
    /\ workers' = workers (+) SetToBag({Worker(main.agent, main.task, "run")})
    /\ Apply(PassRun(tq, am, main.tasks, main.avail, main.groups, MainCall))
    /\ UNCHANGED <<events, now, stops, starts, broker>>

\* assign_task resumes after its publishes (ok: they succeeded): the worker
\* task is created and the pass goes on
PassResume(ok) ==
    /\ main.pc = "pass"
    /\ _safe_publish_event(ok)
    /\ workers' = workers (+) SetToBag({Worker(main.agent, main.task, "run")})
    /\ Apply(PassRun(tq, am, main.tasks, main.avail, main.groups, MainCall))
    /\ UNCHANGED <<events, now, stops, starts, broker>>

\* ------------------------------------------------------- the message broker
\* MessageBroker.agent_queues: the agent types that have a work queue (two of
\* the five of the code)
agent_queues == {"scraper", "processor"}

\* the agent types publish_task and subscribe are called with: "search" is the
\* agent type add_task gives a task of the unmapped type "search"
BrokerAgentTypes == agent_queues \cup {"search"}

EnvelopeIds == 1..MaxEnvelopes

\* MessageBroker.__init__ and the queues connect declares, all empty. unacked
\* holds the deliveries whose on_message is running, redelivered the envelopes
\* the server has requeued, handled the envelopes whose callback has returned.
MB_init ==
    [is_connected |-> FALSE, queues |-> [agent_type \in agent_queues |-> <<>>],
     consumers |-> {}, unacked |-> {}, redelivered |-> {}, handled |-> {},
     published |-> 0]

Delivery(agent_type, envelope) == [queue |-> agent_type, envelope |-> envelope]

\* MessageBroker.publish_task: connect if needed (a failure of connect is
\* raised), return without publishing for an agent type that has no queue,
\* publish to the queue of the type (a failure of the publish is raised again)
MB_publish_task(b, agent_type, conn_ok, pub_ok) ==
    IF ~b.is_connected /\ ~conn_ok
    THEN [broker |-> b, raised |-> TRUE, enqueued |-> None]
    ELSE LET c == [b EXCEPT !.is_connected = TRUE]
         IN IF agent_type \notin agent_queues
            THEN [broker |-> c, raised |-> FALSE, enqueued |-> None]
            ELSE IF ~pub_ok
                 THEN [broker |-> c, raised |-> TRUE, enqueued |-> None]
                 ELSE [broker |-> [c EXCEPT !.queues[agent_type] = Append(@, c.published + 1),
                                            !.published = @ + 1],
                       raised |-> FALSE, enqueued |-> c.published + 1]

\* MessageBroker.subscribe: connect if needed, return "" for an agent type that
\* has no queue, start a consumer on the queue of the type
MB_subscribe(b, agent_type, conn_ok) ==
    IF ~b.is_connected /\ ~conn_ok THEN b
    ELSE LET c == [b EXCEPT !.is_connected = TRUE]
         IN IF agent_type \notin agent_queues THEN c
            ELSE [c EXCEPT !.consumers = @ \cup {agent_type}]

\* message.process() left without an exception: the delivery is acknowledged
\* and the server drops the envelope
MB_ack(b, agent_type, envelope) ==
    [b EXCEPT !.unacked = @ \ {Delivery(agent_type, envelope)},
              !.handled = @ \cup {envelope}]

\* a nack that does not requeue
MB_nack_drop(b, agent_type, envelope) ==
    [b EXCEPT !.unacked = @ \ {Delivery(agent_type, envelope)},
              !.redelivered = @ \cup {envelope}]

\* where the server puts a requeued envelope: at its original position,
\* behind the envelopes published before it that are ready
RequeuePosition(b, agent_type, envelope) ==
    Cardinality({older \in Range(b.queues[agent_type]) : older < envelope}) + 1

\* message.nack(requeue=True): the server puts the envelope back on its queue
\* and marks it redelivered
MB_nack(b, agent_type, envelope) ==
    LET position == RequeuePosition(b, agent_type, envelope)
    IN [b EXCEPT !.unacked = @ \ {Delivery(agent_type, envelope)},
                 !.queues[agent_type] = SubSeq(@, 1, position - 1) \o <<envelope>>
                                           \o SubSeq(@, position, Len(@)),
                 !.redelivered = @ \cup {envelope}]

\* a call of publish_task by an agent
PublishTask(agent_type, conn_ok, pub_ok) ==
    /\ broker.published < MaxEnvelopes
    /\ LET r == MB_publish_task(broker, agent_type, conn_ok, pub_ok)
       IN /\ broker' = r.broker
          /\ call' = Call("publish_task", None, r.enqueued, ~r.raised, agent_type)
    /\ UNCHANGED <<tq, am, events, now, main, workers, stops, starts>>

\* a call of subscribe by an agent at its start
Subscribe(agent_type, conn_ok) ==
    /\ broker' = MB_subscribe(broker, agent_type, conn_ok)
    /\ broker' # broker
    /\ call' = Call("subscribe", None, None, agent_type \in broker'.consumers, agent_type)
    /\ UNCHANGED <<tq, am, events, now, main, workers, stops, starts>>

\* the server hands the oldest envelope of a queue to a consumer that has
\* fewer than prefetch_count deliveries unacknowledged: on_message starts and
\* is suspended in the callback
Deliver(agent_type, envelope) ==
    /\ agent_type \in broker.consumers
    /\ broker.queues[agent_type] # <<>>
    /\ envelope = Head(broker.queues[agent_type])
    /\ Cardinality({d \in broker.unacked : d.queue = agent_type}) < prefetch_count
    /\ broker' = [broker EXCEPT
                     !.queues[agent_type] = Tail(@),
                     !.unacked = @ \cup {Delivery(agent_type, envelope)}]
    /\ call' = Call("deliver", None, envelope, TRUE, agent_type)
    /\ UNCHANGED <<tq, am, events, now, main, workers, stops, starts>>

\* on_message of subscribe after the callback: the callback has returned and
\* message.process() acknowledges, or it has raised (so has json.loads on a
\* body that does not parse) and the handler nacks with requeue
OnMessage(agent_type, envelope, raises) ==
    /\ Delivery(agent_type, envelope) \in broker.unacked
    /\ broker' = IF raises THEN MB_nack(broker, agent_type, envelope)
                 ELSE MB_ack(broker, agent_type, envelope)
    /\ call' = Call("on_message", None, envelope, ~raises, agent_type)
    /\ UNCHANGED <<tq, am, events, now, main, workers, stops, starts>>

Init ==
    /\ tq = TQ_init
    /\ am = AM_init
    /\ events = <<>>
    /\ now = 0
    /\ main = MainTop
    /\ workers = EmptyBag
    /\ stops = {}
    /\ starts = {}
    /\ call = NoCall
    /\ broker = MB_init

\* What a specification lets the environment do: how many tasks it submits,
\* agents it starts, retries and stops it calls, how far the clock runs, and
\* the task types and pools it uses.
Bounds(n_tasks, n_agents, n_retries, n_ticks, n_stops, task_types, agent_types) ==
    [tasks |-> n_tasks, agents |-> n_agents, retries |-> n_retries, ticks |-> n_ticks,
     stops |-> n_stops, task_types |-> task_types, agent_types |-> agent_types]

NextOf(B) ==
    \/ \E task_type \in B.task_types : SubmitTask(B, task_type)
    \/ HandleTaskEvent
    \/ \E task_id \in TaskIds : RetryTask(B, task_id)
    \/ Tick(B)
    \/ \E agent_id \in AgentIds, ok \in BOOLEAN : UpdateHeartbeat(agent_id, ok)
    \/ \E agent_id \in AgentIds : AutoHeartbeat(agent_id)
    \/ \E agent_type \in B.agent_types : StartAgent(B, agent_type)
    \/ \E agent_id \in AgentIds, ok \in BOOLEAN : StartAgentResume(agent_id, ok)
    \/ \E agent_id \in AgentIds : StopAgent(B, agent_id)
    \/ \E agent_id \in AgentIds, ok \in BOOLEAN : StopAgentStopped(agent_id, ok)
    \/ \E agent_id \in AgentIds, ok \in BOOLEAN : StopAgentRemove(agent_id, ok)
    \/ \E agent_id \in AgentIds, task_id \in TaskIds, raises \in BOOLEAN :
          WorkerRun(agent_id, task_id, raises)
    \/ \E agent_id \in AgentIds, task_id \in TaskIds,
          type \in {"task.completed", "task.failed"}, ok \in BOOLEAN :
          WorkerPublish(agent_id, task_id, type, ok)
    \/ MainLoop
    \/ \E ok \in BOOLEAN : SweepHandleFailure(ok)
    \/ \E ok \in BOOLEAN : SweepPublished(ok)
    \/ \E ok \in BOOLEAN : PassResume(ok)

SpecBounds == Bounds(MaxTasks, SpecAgents, SpecRetries, SpecTicks, SpecStops, TaskTypes, {"scraper"})
Next == NextOf(SpecBounds)
Spec == Init /\ [][Next]_vars

PoolBounds == Bounds(PoolTasks, MaxAgents, PoolRetries, PoolTicks, PoolStops, {"scrape_web"}, {"scraper"})
NextPool == NextOf(PoolBounds)
SpecPool == Init /\ [][NextPool]_vars

\* One agent and one task, every operation of the registry and every outcome
\* of a publish
PublishBounds ==
    Bounds(PublishTasks, PublishAgents, PublishRetries, PublishTicks, PublishStops,
           {"scrape_web"}, {"scraper"})
NextPublish == NextOf(PublishBounds)
SpecPublish == Init /\ [][NextPublish]_vars

\* ------------------------------------------------ the sweep, with scheduling
\* One agent and one task; the broker accepts every publish; nobody calls
\* retry_task, stop_agent or update_heartbeat.  The event loop runs every
\* coroutine that is ready: each step of the coordinator is weakly fair; the
\* calls of the environment and the clock are not.
SweepBounds == Bounds(SweepTasks, SweepAgents, 0, SweepTicks, 0, {"scrape_web"}, {"scraper"})

SweepResume ==
    \/ HandleTaskEvent
    \/ \E agent_id \in AgentIds : StartAgentResume(agent_id, TRUE)
    \/ \E agent_id \in AgentIds, task_id \in TaskIds, raises \in BOOLEAN :
          WorkerRun(agent_id, task_id, raises)
    \/ \E agent_id \in AgentIds, task_id \in TaskIds,
          type \in {"task.completed", "task.failed"} :
          WorkerPublish(agent_id, task_id, type, TRUE)
    \/ MainLoop
    \/ SweepHandleFailure(TRUE)
    \/ SweepPublished(TRUE)
    \/ PassResume(TRUE)

NextSweep ==
    \/ \E task_type \in SweepBounds.task_types : SubmitTask(SweepBounds, task_type)
    \/ Tick(SweepBounds)
    \/ \E agent_id \in AgentIds : AutoHeartbeat(agent_id)
    \/ \E agent_type \in SweepBounds.agent_types : StartAgent(SweepBounds, agent_type)
    \/ SweepResume

\* every coroutine of the coordinator that is ready is run
SweepFair ==
    /\ WF_vars(HandleTaskEvent)
    /\ WF_vars(\E agent_id \in AgentIds : StartAgentResume(agent_id, TRUE))
    /\ WF_vars(\E agent_id \in AgentIds, task_id \in TaskIds, raises \in BOOLEAN :
                  WorkerRun(agent_id, task_id, raises))
    /\ WF_vars(\E agent_id \in AgentIds, task_id \in TaskIds,
                  type \in {"task.completed", "task.failed"} :
                  WorkerPublish(agent_id, task_id, type, TRUE))
    /\ WF_vars(MainLoop)
    /\ WF_vars(SweepHandleFailure(TRUE))
    /\ WF_vars(SweepPublished(TRUE))
    /\ WF_vars(PassResume(TRUE))

SpecSweep == Init /\ [][NextSweep]_vars /\ SweepFair

\* ------------------------------------- the sweep, with best-effort publishes
\* As SpecSweep, but a publish may raise inside _safe_publish_event; every
\* coroutine of the coordinator that is ready is still run.
LossyResume ==
    \/ HandleTaskEvent
    \/ \E agent_id \in AgentIds, ok \in BOOLEAN : StartAgentResume(agent_id, ok)
    \/ \E agent_id \in AgentIds, task_id \in TaskIds, raises \in BOOLEAN :
          WorkerRun(agent_id, task_id, raises)
    \/ \E agent_id \in AgentIds, task_id \in TaskIds,
          type \in {"task.completed", "task.failed"}, ok \in BOOLEAN :
          WorkerPublish(agent_id, task_id, type, ok)
    \/ MainLoop
    \/ \E ok \in BOOLEAN : SweepHandleFailure(ok)
    \/ \E ok \in BOOLEAN : SweepPublished(ok)
    \/ \E ok \in BOOLEAN : PassResume(ok)

NextLossy ==
    \/ \E task_type \in SweepBounds.task_types : SubmitTask(SweepBounds, task_type)
    \/ Tick(SweepBounds)
    \/ \E agent_id \in AgentIds : AutoHeartbeat(agent_id)
    \/ \E agent_type \in SweepBounds.agent_types : StartAgent(SweepBounds, agent_type)
    \/ LossyResume

LossyFair ==
    /\ WF_vars(HandleTaskEvent)
    /\ WF_vars(\E agent_id \in AgentIds, ok \in BOOLEAN : StartAgentResume(agent_id, ok))
    /\ WF_vars(\E agent_id \in AgentIds, task_id \in TaskIds, raises \in BOOLEAN :
                  WorkerRun(agent_id, task_id, raises))
    /\ WF_vars(\E agent_id \in AgentIds, task_id \in TaskIds,
                  type \in {"task.completed", "task.failed"}, ok \in BOOLEAN :
                  WorkerPublish(agent_id, task_id, type, ok))
    /\ WF_vars(MainLoop)
    /\ WF_vars(\E ok \in BOOLEAN : SweepHandleFailure(ok))
    /\ WF_vars(\E ok \in BOOLEAN : SweepPublished(ok))
    /\ WF_vars(\E ok \in BOOLEAN : PassResume(ok))

SpecLossy == Init /\ [][NextLossy]_vars /\ LossyFair

\* Every operation of SpecPublish, and every coroutine of the coordinator that
\* is ready is run (the calls of the environment and the clock are not forced)
SpecPublishFair == Init /\ [][NextPublish]_vars /\ LossyFair

\* --------------------------------------------- assign_task as a function
\* An agent record as the registry can hold it: an idle or starting agent
\* holds nothing, a busy one holds a task.
AgentRecords ==
    {[type |-> "scraper", state |-> state, last_heartbeat |-> 0, current_tasks |-> held] :
        state \in {STARTING, IDLE}, held \in {<<>>}}
    \cup {[type |-> "scraper", state |-> BUSY, last_heartbeat |-> 0, current_tasks |-> <<task_id>>] :
        task_id \in TaskIds}
    \cup {[type |-> "scraper", state |-> state, last_heartbeat |-> 0, current_tasks |-> held] :
        state \in {ERROR, STOPPING, STOPPED}, held \in {<<>>} \cup {<<task_id>> : task_id \in TaskIds}}

\* the registries with any of the agents registered
Registries ==
    {[agents |-> agents,
      agent_tasks |-> [agent_id \in DOMAIN agents |-> Range(agents[agent_id].current_tasks)],
      last_health_check |-> 0,
      next_id |-> MaxAgents] :
        agents \in UNION {[ids -> AgentRecords] : ids \in SUBSET AgentIds}}

InitAssign ==
    /\ tq = TQ_init
    /\ am \in Registries
    /\ events = <<>>
    /\ now = 0
    /\ main = MainTop
    /\ workers = EmptyBag
    /\ stops = {}
    /\ starts = {}
    /\ call = NoCall
    /\ broker = MB_init

\* AgentManager.assign_task, called on any agent id, up to its first suspension
AssignTask(agent_id, task_id) ==
    /\ LET r == AM_assign_task(am, agent_id, task_id)
       IN /\ am' = r.am
          /\ call' = Call("am.assign_task", agent_id, task_id, r.ret,
                          IF Registered(am, agent_id) THEN am.agents[agent_id].state ELSE NoValue)
    /\ UNCHANGED <<tq, events, now, main, workers, stops, starts, broker>>

NextAssign == \E agent_id \in AgentIds, task_id \in TaskIds : AssignTask(agent_id, task_id)

SpecAssign == InitAssign /\ [][NextAssign]_vars

\* ------------------------------------- the scheduling pass with two agents
\* Two tasks and two agents of one pool.  The clock stands still, so the
\* health check returns at once and every round of the loop is a scheduling
\* pass; nobody calls retry_task or update_heartbeat.
PassBounds == Bounds(PassTasks, PassAgents, 0, 0, PassStops, {"scrape_web", "search"}, {"scraper"})

NextPass ==
    \/ \E task_type \in PassBounds.task_types : SubmitTask(PassBounds, task_type)
    \/ HandleTaskEvent
    \/ \E agent_type \in PassBounds.agent_types : StartAgent(PassBounds, agent_type)
    \/ \E agent_id \in AgentIds, ok \in BOOLEAN : StartAgentResume(agent_id, ok)
    \/ \E agent_id \in AgentIds : StopAgent(PassBounds, agent_id)
    \/ \E agent_id \in AgentIds, ok \in BOOLEAN : StopAgentStopped(agent_id, ok)
    \/ \E agent_id \in AgentIds, ok \in BOOLEAN : StopAgentRemove(agent_id, ok)
    \/ \E agent_id \in AgentIds, task_id \in TaskIds, raises \in BOOLEAN :
          WorkerRun(agent_id, task_id, raises)
    \/ \E agent_id \in AgentIds, task_id \in TaskIds,
          type \in {"task.completed", "task.failed"}, ok \in BOOLEAN :
          WorkerPublish(agent_id, task_id, type, ok)
    \/ MainLoop
    \/ \E ok \in BOOLEAN : PassResume(ok)

SpecPass == Init /\ [][NextPass]_vars

\* The broker alone: agents publish task envelopes and subscribe, the server
\* delivers, callbacks return or raise. The server keeps a queue in the order
\* of publication and does not leave an envelope ready for ever that is again
\* and again at the head of its queue while a consumer has capacity.
NextBroker ==
    \/ \E agent_type \in BrokerAgentTypes, conn_ok, pub_ok \in BOOLEAN :
          PublishTask(agent_type, conn_ok, pub_ok)
    \/ \E agent_type \in BrokerAgentTypes, conn_ok \in BOOLEAN : Subscribe(agent_type, conn_ok)
    \/ \E agent_type \in agent_queues, envelope \in EnvelopeIds : Deliver(agent_type, envelope)
    \/ \E agent_type \in agent_queues, envelope \in EnvelopeIds, raises \in BOOLEAN :
          OnMessage(agent_type, envelope, raises)
BrokerFair ==
    \A agent_type \in agent_queues, envelope \in EnvelopeIds :
        SF_vars(Deliver(agent_type, envelope))
SpecBroker == Init /\ [][NextBroker]_vars /\ BrokerFair

\* =================================================================== claims
Submitted == DOMAIN tq.task_history

StatusOf(q, task_id) == q.tasks[task_id].status

\* the task's history shows status `from` directly followed by status `to`
Moved(task_id, from, to) ==
    \E i \in 1..(Len(tq.task_history[task_id]) - 1) :
        /\ tq.task_history[task_id][i] = from
        /\ tq.task_history[task_id][i + 1] = to

C2_OnePartition ==
    /\ \A task_id \in Submitted :
          /\ CountOf(tq.pending_tasks, task_id)
               + (IF task_id \in tq.processing_tasks THEN 1 ELSE 0)
               + (IF task_id \in tq.completed_tasks THEN 1 ELSE 0)
               + (IF task_id \in tq.failed_tasks THEN 1 ELSE 0) = 1
          /\ StatusOf(tq, task_id) = "pending" <=> task_id \in Range(tq.pending_tasks)
          /\ StatusOf(tq, task_id) = "processing" <=> task_id \in tq.processing_tasks
          /\ StatusOf(tq, task_id) = "completed" <=> task_id \in tq.completed_tasks
          /\ StatusOf(tq, task_id) = "failed" <=> task_id \in tq.failed_tasks
    /\ Range(tq.pending_tasks) \cup tq.processing_tasks
          \cup tq.completed_tasks \cup tq.failed_tasks \subseteq Submitted
    /\ DOMAIN tq.tasks = Submitted
    /\ pending_count(tq) + processing_count(tq) + completed_count(tq) + failed_count(tq)
          = Cardinality(Submitted)

\* both tasks are submitted and have moved: one is failed after a retry, the
\* other is completed
C2_Witness ==
    /\ Cardinality(Submitted) = MaxTasks
    /\ completed_count(tq) = 1
    /\ \E task_id \in tq.failed_tasks : Moved(task_id, "failed", "pending")

\* the held-task set of a registered agent: agent["current_tasks"] and agent_tasks[agent]
Held(agent_id) ==
    Range(am.agents[agent_id].current_tasks)
        \cup (IF agent_id \in DOMAIN am.agent_tasks THEN am.agent_tasks[agent_id] ELSE {})

Holders(task_id) == {agent_id \in DOMAIN am.agents : task_id \in Held(agent_id)}

C4_Rejects ==
    [][(/\ call'.op \in {"am.complete_task", "am.fail_task"}
        /\ \/ ~Registered(am, call'.agent)
           \/ call'.task \notin Range(am.agents[call'.agent].current_tasks))
       => /\ call'.ret = FALSE
          /\ am' = am
          /\ events' = events
          /\ workers' = workers (-) SetToBag({Worker(call'.agent, call'.task, "run")})]_vars

\* complete_task was called for a registered agent that does not hold the task
C4_Witness ==
    /\ call.op = "am.complete_task"
    /\ call.ret = FALSE
    /\ Registered(am, call.agent)
    /\ call.task \notin Held(call.agent)

AssignedTo(q, task_id) == IF task_id \in DOMAIN q.tasks THEN q.tasks[task_id].assigned_to ELSE None

C6_BusyIffHolding ==
    \A agent_id \in DOMAIN am.agents :
        /\ am.agents[agent_id].state # ERROR =>
              (am.agents[agent_id].state = BUSY <=> Held(agent_id) # {})
        /\ am.agents[agent_id].state = IDLE => Held(agent_id) = {}

\* the part of C6 that no stop_agent is needed to break: a BUSY agent holds a task
C6_BusyHolds ==
    \A agent_id \in DOMAIN am.agents :
        am.agents[agent_id].state = BUSY => Held(agent_id) # {}

C9_Retry ==
    [][call'.op = "retry_task" =>
         LET task_id == call'.task
         IN /\ call'.ret = TRUE <=> task_id \in tq.failed_tasks
            /\ call'.ret = TRUE =>
                  /\ tq'.pending_tasks = Append(tq.pending_tasks, task_id)
                  /\ tq'.failed_tasks = tq.failed_tasks \ {task_id}
                  /\ tq'.processing_tasks = tq.processing_tasks
                  /\ tq'.completed_tasks = tq.completed_tasks
                  /\ tq'.tasks = [tq.tasks EXCEPT ![task_id].status = "pending",
                                                  ![task_id].error = NoValue,
                                                  ![task_id].assigned_to = None]
                  /\ tq'.task_history =
                         [tq.task_history EXCEPT ![task_id] = Append(@, "pending")]
            /\ call'.ret = FALSE => tq' = tq]_vars

\* a task that had been assigned and failed was retried and stands behind
\* another pending task
C9_Witness ==
    /\ call.op = "retry_task"
    /\ call.ret = TRUE
    /\ Len(tq.pending_tasks) = 2
    /\ Last(tq.pending_tasks) = call.task
    /\ Moved(call.task, "processing", "failed")
    /\ tq.tasks[call.task].assigned_to = None

\* C7, its temporal part: every task that an agent holds at the moment a
\* health sweep sets the agent to ERROR is eventually in the failed partition
\* with the error 'Agent failure'.
C7_StaleFails ==
    \A task_id \in TaskIds :
        (/\ call.op = "health.error"
         /\ Registered(am, call.agent)
         /\ task_id \in Range(am.agents[call.agent].current_tasks))
        ~> (/\ task_id \in tq.failed_tasks
            /\ tq.tasks[task_id].error = AgentFailure)

\* C10 as stated: assign_task succeeds exactly when the agent is registered
\* and IDLE or BUSY; on success the agent holds the task and is BUSY; otherwise
\* it returns False and leaves the registry unchanged.
C10_IdleOrBusy ==
    [][call'.op = "am.assign_task" =>
         LET agent_id == call'.agent
             task_id == call'.task
         IN /\ call'.ret = TRUE <=>
                  (Registered(am, agent_id) /\ am.agents[agent_id].state \in {IDLE, BUSY})
            /\ call'.ret = TRUE =>
                  /\ task_id \in Range(am'.agents[agent_id].current_tasks)
                  /\ task_id \in am'.agent_tasks[agent_id]
                  /\ am'.agents[agent_id].state = BUSY
            /\ call'.ret = FALSE => am' = am]_vars

\* C10 amended: assign_task succeeds exactly when the agent is registered and
\* its state is IDLE (or RUNNING, a state that nothing sets); on success the
\* task id is added to the agent's held-task set and the agent's state is
\* BUSY; in every other state (STARTING, BUSY, ERROR, STOPPING, STOPPED,
\* unknown agent) it returns False and leaves every agent's state and
\* held-task set unchanged.
C10_IdleOnly ==
    [][call'.op = "am.assign_task" =>
         LET agent_id == call'.agent
             task_id == call'.task
         IN /\ call'.ret = TRUE <=>
                  (Registered(am, agent_id) /\ am.agents[agent_id].state \in {IDLE, RUNNING})
            /\ call'.ret = TRUE =>
                  /\ am'.agents[agent_id].current_tasks =
                         Append(am.agents[agent_id].current_tasks, task_id)
                  /\ am'.agent_tasks[agent_id] = am.agent_tasks[agent_id] \cup {task_id}
                  /\ am'.agents[agent_id].state = BUSY
                  /\ \A other \in DOMAIN am.agents \ {agent_id} :
                         /\ am'.agents[other] = am.agents[other]
                         /\ am'.agent_tasks[other] = am.agent_tasks[other]
            /\ call'.ret = FALSE => am' = am]_vars

\* assign_task has accepted a task for an idle agent while another agent is
\* busy with another task
C10_Witness ==
    /\ call.op = "am.assign_task"
    /\ call.ret = TRUE
    /\ call.pre = IDLE
    /\ am.agents[call.agent].state = BUSY
    /\ am.agents[call.agent].current_tasks = <<call.task>>
    /\ \E other \in DOMAIN am.agents \ {call.agent} :
           /\ am.agents[other].state = BUSY
           /\ call.task \notin Range(am.agents[other].current_tasks)

\* the pending tasks of the task's capability type that are queued before it
EarlierPending(q, task_id) ==
    {q.pending_tasks[i] : i \in {j \in DOMAIN q.pending_tasks :
        /\ \E k \in DOMAIN q.pending_tasks : k > j /\ q.pending_tasks[k] = task_id
        /\ q.tasks[q.pending_tasks[j]].agent_type = q.tasks[task_id].agent_type}}

\* C11, the order and the pairing: a task moves from pending to processing
\* only when no earlier-queued pending task of its capability type stays
\* pending, and the agent it is paired with is registered and IDLE when the
\* task is moved.
C11_FifoIdlePairs ==
    [][\A task_id \in Submitted :
          (StatusOf(tq, task_id) = "pending" /\ StatusOf(tq', task_id) = "processing")
          => /\ EarlierPending(tq, task_id) \cap Range(tq'.pending_tasks) = {}
             /\ Registered(am, AssignedTo(tq', task_id))
             /\ am.agents[AssignedTo(tq', task_id)].state = IDLE]_vars

\* C12, its temporal part: once the worker of a task has reported completion
\* (AgentManager.complete_task accepted it), the task is eventually in the
\* completed partition with the reported result.
C12_ReportedCompletes ==
    \A task_id \in TaskIds :
        (/\ call.op = "am.complete_task"
         /\ call.ret = TRUE
         /\ call.task = task_id)
        ~> (/\ task_id \in tq.completed_tasks
            /\ tq.tasks[task_id].result = Result)

\* the registered agents of a capability type that are IDLE
IdleAgents(m, agent_type) ==
    {agent_id \in DOMAIN m.agents :
        m.agents[agent_id].type = agent_type /\ m.agents[agent_id].state = IDLE}

\* C13 as stated: a step of the control loop (scheduling pass or health
\* sweep) leaves pending, with its history unchanged, every pending task
\* whose capability type has no registered agent that is IDLE.
C13_NoIdleStaysPending ==
    [][call'.op \notin {"add_task", "retry_task", "task.completed", "task.failed"} =>
         \A task_id \in Submitted :
            (/\ StatusOf(tq, task_id) = "pending"
             /\ IdleAgents(am, tq.tasks[task_id].agent_type) = {})
            => /\ StatusOf(tq', task_id) = "pending"
               /\ tq'.task_history[task_id] = tq.task_history[task_id]]_vars

\* the part of C13 about a capability type without agents: a task whose
\* capability type never has a registered agent is pending, and its history
\* is the one entry of its submission
C13_NoAgentStaysPending ==
    \A task_id \in Submitted :
        tq.tasks[task_id].agent_type \notin SpecBounds.agent_types
        => /\ StatusOf(tq, task_id) = "pending"
           /\ tq.task_history[task_id] = <<"pending">>

\* the tasks of a capability type that a step moves from pending to processing
MovedToProcessing(agent_type) ==
    {task_id \in Submitted :
        /\ tq.tasks[task_id].agent_type = agent_type
        /\ StatusOf(tq, task_id) = "pending"
        /\ StatusOf(tq', task_id) = "processing"}

\* C14 as stated: a task that leaves pending is handed to an agent that holds
\* no task; of the pending tasks of a capability type no more leave pending
\* than the type has IDLE agents (the excess stays pending); and no agent
\* ever holds two tasks.
C14_ExcessStaysPending ==
    [][/\ \A task_id \in Submitted :
             (StatusOf(tq, task_id) = "pending" /\ StatusOf(tq', task_id) = "processing")
             => (Registered(am, AssignedTo(tq', task_id))
                   => Held(AssignedTo(tq', task_id)) = {})
       /\ \A agent_type \in {tq.tasks[task_id].agent_type : task_id \in Submitted} :
             Cardinality(MovedToProcessing(agent_type))
                 <= Cardinality(IdleAgents(am, agent_type))
       /\ \A agent_id \in DOMAIN am'.agents :
             /\ Len(am'.agents[agent_id].current_tasks) <= 1
             /\ Cardinality(am'.agent_tasks[agent_id]) <= 1]_vars

\* the part of C14 about the agents: no registered agent holds two tasks, and
\* an IDLE agent holds none
C14_OneTaskPerAgent ==
    \A agent_id \in DOMAIN am.agents :
        /\ Len(am.agents[agent_id].current_tasks) <= 1
        /\ Cardinality(Held(agent_id)) <= 1
        /\ am.agents[agent_id].state = IDLE => Held(agent_id) = {}

\* C15 as stated: a submission whose task type is not a key of the mapping
\* returns no task id and leaves the task store as it was, and no task of
\* such a type has a record in the store.
C15_UnknownRejected ==
    [][/\ (call'.op = "add_task" /\ call'.pre \notin MappedTaskTypes)
            => (call'.ret = FALSE /\ tq' = tq)
       /\ \A task_id \in DOMAIN tq'.tasks : tq'.tasks[task_id].type \in MappedTaskTypes]_vars

\* the envelopes the server holds: ready on a queue or delivered and not yet
\* acknowledged
OnQueue(b, agent_type) ==
    Range(b.queues[agent_type]) \cup {d.envelope : d \in {u \in b.unacked : u.queue = agent_type}}

\* C16 as stated: a publish_task that returns normally has put the envelope
\* at the end of the work queue of the given agent type.
C16_ReturnedIsEnqueued ==
    [][(call'.op = "publish_task" /\ call'.ret = TRUE)
       => /\ call'.pre \in agent_queues
          /\ broker'.queues[call'.pre] = Append(broker.queues[call'.pre], call'.task)]_vars

\* C18: an envelope leaves its work queue (ready or unacknowledged) only in
\* the step in which the callback returns for it without raising; a callback
\* that raises leaves the envelope ready on the same queue, and the envelope is
\* delivered again; every published envelope is on its queue or has had its
\* callback return.
C18_AtLeastOnce ==
    /\ [][\A agent_type \in agent_queues :
             /\ \A envelope \in OnQueue(broker, agent_type) \ OnQueue(broker', agent_type) :
                   call' = Call("on_message", None, envelope, TRUE, agent_type)
             /\ \A envelope \in EnvelopeIds :
                   call' = Call("on_message", None, envelope, FALSE, agent_type)
                   => envelope \in Range(broker'.queues[agent_type])]_vars
    /\ \A agent_type \in agent_queues : \A envelope \in EnvelopeIds :
          (call = Call("on_message", None, envelope, FALSE, agent_type))
             ~> (Delivery(agent_type, envelope) \in broker.unacked)
    /\ [](1..broker.published
             = broker.handled \cup UNION {OnQueue(broker, agent_type) : agent_type \in agent_queues})

\* an envelope whose callback has raised is with the callback a second time
C18_Witness ==
    \E delivery \in broker.unacked : delivery.envelope \in broker.redelivered

\* C17: a registry operation that is suspended in a publish goes on when the
\* publish fails (no exception ends it or the control loop), and the step it
\* then takes changes the agent states and held-task sets, and returns, as
\* the step after a successful publish does; the publish of a task event by
\* complete_task, fail_task and the health sweep changes nothing in the
\* registry, whether it fails or not.
C17_PublishFailureIgnored ==
    /\ [](/\ \A agent_id \in starts : ENABLED StartAgentResume(agent_id, FALSE)
          /\ \A stop \in stops :
                IF stop.pc = "stopping" THEN ENABLED StopAgentStopped(stop.agent, FALSE)
                ELSE ENABLED StopAgentRemove(stop.agent, FALSE)
          /\ \A w \in BagToSet(workers) :
                w.pc # "run" => ENABLED WorkerPublish(w.agent, w.task, w.pc, FALSE)
          /\ \A agent_id \in AgentIds : ENABLED UpdateHeartbeat(agent_id, FALSE)
          /\ main.pc = "pass" => ENABLED PassResume(FALSE)
          /\ main.pc = "sweep_err" => ENABLED SweepHandleFailure(FALSE)
          /\ main.pc = "sweep_pub" => ENABLED SweepPublished(FALSE))
    /\ [][/\ \A agent_id \in AgentIds :
                /\ StartAgentResume(agent_id, FALSE) => StartAgentResume(agent_id, TRUE)
                /\ StopAgentStopped(agent_id, FALSE) => StopAgentStopped(agent_id, TRUE)
                /\ StopAgentRemove(agent_id, FALSE) => StopAgentRemove(agent_id, TRUE)
                /\ UpdateHeartbeat(agent_id, FALSE) => UpdateHeartbeat(agent_id, TRUE)
          /\ PassResume(FALSE) => PassResume(TRUE)
          /\ \A w \in BagToSet(workers) :
                (w.pc # "run" /\ WorkerPublish(w.agent, w.task, w.pc, FALSE))
                => (am' = am /\ events' = events)
          /\ (call'.op = "health.fail" /\ call'.ret = FALSE)
                => (am' = am /\ events' = events /\ main'.pc = "sweep_pub")]_vars

\* the health sweep has gone on after the publish of a task.failed failed
C17_Witness ==
    /\ call.op = "health.fail"
    /\ call.ret = FALSE
    /\ main.pc = "sweep_pub"
    /\ am.agents[call.agent].state = ERROR

\* C19 as stated: every change of the state of a registered agent is
\* STARTING->IDLE, IDLE->BUSY, BUSY->IDLE, a state other than STOPPED->ERROR
\* in the health sweep, ERROR->IDLE or ERROR->BUSY in a heartbeat, any
\* state->STOPPING, or STOPPING->STOPPED.
C19_StateChanges ==
    [][\A agent_id \in DOMAIN am.agents \cap DOMAIN am'.agents :
          LET old == am.agents[agent_id].state
              new == am'.agents[agent_id].state
          IN old # new =>
                \/ old = STARTING /\ new = IDLE
                \/ old = IDLE /\ new = BUSY
                \/ old = BUSY /\ new = IDLE
                \/ old # STOPPED /\ new = ERROR /\ call'.op = "health.error"
                \/ old = ERROR /\ new \in {IDLE, BUSY} /\ call'.op = "update_heartbeat"
                \/ new = STOPPING
                \/ old = STOPPING /\ new = STOPPED]_vars

\* C20: update_heartbeat on a registered agent returns True and sets the
\* agent's last heartbeat to the current time; an agent in ERROR becomes BUSY
\* if it holds a task and IDLE if it holds none, an agent in another state
\* keeps its state; nothing else in the registry changes. On an unknown agent
\* it returns False and changes nothing.
C20_Heartbeat ==
    [][call'.op = "update_heartbeat" =>
          LET agent_id == call'.agent
          IN IF Registered(am, agent_id)
             THEN /\ call'.ret = TRUE
                  /\ am' = [am EXCEPT
                               !.agents[agent_id].last_heartbeat = now,
                               !.agents[agent_id].state =
                                   IF @ # ERROR THEN @
                                   ELSE IF Held(agent_id) # {} THEN BUSY ELSE IDLE]
             ELSE /\ call'.ret = FALSE
                  /\ am' = am]_vars

\* a heartbeat has brought an agent that holds a task from ERROR to BUSY
C20_Witness ==
    /\ call.op = "update_heartbeat"
    /\ call.pre = ERROR
    /\ Registered(am, call.agent)
    /\ am.agents[call.agent].state = BUSY
    /\ Held(call.agent) # {}

\* C21 as stated: when assign_task has returned True for an agent and a task
\* (the step in which it resumes after its publishes and creates the worker),
\* a task envelope is, or has been, on the work queue of the agent's type.
C21_AssignEnqueues ==
    [][(\E ok \in BOOLEAN : PassResume(ok))
       => LET agent_type == tq.tasks[main.task].agent_type
          IN /\ agent_type \in agent_queues
             /\ broker'.published > 0
             /\ broker'.handled \cup OnQueue(broker', agent_type) # {}]_vars

\* C22: terminal states are stable. A completed task keeps its partition,
\* status and result in every step; a failed task stays failed, with its
\* record, in every step but a retry_task call for that very task.
C22_TerminalStable ==
    [][\A task_id \in Submitted :
          /\ task_id \in tq.completed_tasks =>
                /\ task_id \in tq'.completed_tasks
                /\ task_id \notin Range(tq'.pending_tasks) \cup tq'.processing_tasks
                                    \cup tq'.failed_tasks
                /\ tq'.tasks[task_id] = tq.tasks[task_id]
                /\ tq'.task_history[task_id] = tq.task_history[task_id]
          /\ task_id \in tq.failed_tasks =>
                \/ /\ task_id \in tq'.failed_tasks
                   /\ task_id \notin Range(tq'.pending_tasks) \cup tq'.processing_tasks
                                       \cup tq'.completed_tasks
                   /\ tq'.tasks[task_id] = tq.tasks[task_id]
                   /\ tq'.task_history[task_id] = tq.task_history[task_id]
                \/ /\ call'.op = "retry_task"
                   /\ call'.task = task_id
                   /\ call'.ret = TRUE]_vars

\* a task.failed event for a task that is completed has been handled
C22_Witness ==
    /\ call.op = "task.failed"
    /\ call.task \in tq.completed_tasks
    /\ StatusOf(tq, call.task) = "completed"

\* a task.completed event for a task that is failed has been handled
C22_WitnessFailed ==
    /\ call.op = "task.completed"
    /\ call.task \in tq.failed_tasks
    /\ StatusOf(tq, call.task) = "failed"

\* C23: the mutating Task Store operations are mutually exclusive. While the
\* lock is held it is the scheduling pass that holds it; no step then is an
\* add_task, complete_task, fail_task or retry_task; only the pass changes the
\* Task Store; and a task event that is waiting stays the oldest waiting event.
C23_MutualExclusion ==
    [][tq.lock =>
          /\ main.pc = "pass"
          /\ call'.op \notin {"add_task", "task.completed", "task.failed", "retry_task"}
          /\ tq' # tq => \E ok \in BOOLEAN : PassResume(ok)
          /\ events # <<>> => /\ events' # <<>>
                              /\ Head(events') = Head(events)]_vars

\* a completion or failure event of a task in processing has arrived while a
\* scheduling pass is suspended in assign_task with the lock held
C23_Witness ==
    /\ tq.lock
    /\ main.pc = "pass"
    /\ events # <<>>
    /\ Head(events).type \in {"task.completed", "task.failed"}
    /\ Head(events).task_id \in tq.processing_tasks

\* the agent has just given the task up: complete_task or fail_task of the
\* registry took it from the agent's held tasks, or _handle_agent_failure has
\* published the last task.failed and clears the held tasks of its agent
Released(task_id) ==
    \/ /\ call.op \in {"am.complete_task", "am.fail_task"}
       /\ call.task = task_id
       /\ call.ret = TRUE
    \/ /\ main.pc = "sweep_pub"
       /\ main.tasks = <<>>
       /\ Registered(am, main.agent)
       /\ task_id \in Held(main.agent)

\* C24 as stated: a task in processing that its agent has released is
\* eventually in completed or failed.
C24_Converges ==
    \A task_id \in TaskIds :
        (Released(task_id) /\ task_id \in tq.processing_tasks)
        ~> (task_id \in tq.completed_tasks \cup tq.failed_tasks)

\* C25, the invariant: the history of every task starts with 'pending' and
\* the status of its last entry is the task's current status.
HistoryMatchesStatus ==
    \A task_id \in Submitted :
        /\ tq.task_history[task_id] # <<>>
        /\ Head(tq.task_history[task_id]) = "pending"
        /\ Last(tq.task_history[task_id]) = StatusOf(tq, task_id)
        /\ task_id \in DOMAIN tq.tasks

\* C25: the history is append-only. In every step no task loses its history;
\* a task whose record is unchanged keeps its history, a task whose status
\* changes gets exactly one new entry, with the new status, after the old
\* ones; a new task starts with the one entry 'pending'; a rejected retry
\* appends nothing; and the invariant above holds before and after.
C25_AppendOnly ==
    [][/\ HistoryMatchesStatus /\ HistoryMatchesStatus'
       /\ Submitted \subseteq DOMAIN tq'.task_history
       /\ \A task_id \in Submitted :
             \/ /\ tq'.tasks[task_id] = tq.tasks[task_id]
                /\ tq'.task_history[task_id] = tq.task_history[task_id]
             \/ /\ StatusOf(tq', task_id) # StatusOf(tq, task_id)
                /\ tq'.task_history[task_id] =
                       Append(tq.task_history[task_id], StatusOf(tq', task_id))
       /\ \A task_id \in DOMAIN tq'.task_history \ Submitted :
             /\ tq'.task_history[task_id] = <<"pending">>
             /\ call'.op = "add_task"
             /\ call'.task = task_id
       /\ (call'.op = "retry_task" /\ call'.ret = FALSE) => tq' = tq
       /\ (call'.op \in {"task.completed", "task.failed"}
              /\ StatusOf(tq', call'.task) = StatusOf(tq, call'.task)) => tq' = tq]_vars

\* a task has been added, assigned, failed, retried, assigned again and
\* completed by the event handled last
C25_Witness ==
    /\ 1 \in Submitted
    /\ tq.task_history[1] =
           <<"pending", "processing", "failed", "pending", "processing", "completed">>
    /\ call.op \in {"task.completed", "task.failed"}
    /\ call.task = 1

\* where the stop_agent call on an agent is: "none" (no call in progress),
\* "stopping" (STOPPING is set, agent.state_changed and agent.stopping are
\* being published) or "stopped" (STOPPED is set, agent.state_changed is being
\* published; the removal and the publish of agent.stopped follow)
StopPc(st, agent_id) ==
    IF \E stop \in st : stop.agent = agent_id
    THEN (CHOOSE stop \in st : stop.agent = agent_id).pc
    ELSE "none"

\* C26: stop_agent. A call on a registered agent sets STOPPING and goes on to
\* publish agent.stopping; from there its next step sets STOPPED, whatever
\* the agent holds and whatever the publish did; from there its next step
\* removes the agent and its held-task record and the call returns True; the
\* steps come in that order and each can be taken as soon as the one before
\* is done. An agent is removed by nothing else, and a removed agent is never
\* registered or listed as idle again. A call on an unknown id returns False
\* and changes nothing.
C26_StopAgent ==
    [][\A agent_id \in AgentIds :
          LET pc == StopPc(stops, agent_id)
              pc_next == StopPc(stops', agent_id)
          IN /\ (call'.op = "stop_agent" /\ call'.agent = agent_id /\ call' # call) =>
                   IF Registered(am, agent_id)
                   THEN /\ call'.ret = TRUE
                        /\ pc = "none" /\ pc_next = "stopping"
                        /\ am' = [am EXCEPT !.agents[agent_id].state = STOPPING]
                   ELSE /\ call'.ret = FALSE
                        /\ UNCHANGED <<tq, am, events, main, workers, stops, starts, broker>>
             /\ pc # pc_next =>
                   \/ /\ pc = "none" /\ pc_next = "stopping"
                      /\ call'.op = "stop_agent"
                   \/ /\ pc = "stopping" /\ pc_next = "stopped"
                      /\ am' = [am EXCEPT !.agents[agent_id].state = STOPPED]
                   \/ /\ pc = "stopped" /\ pc_next = "none"
                      /\ ~Registered(am', agent_id)
                      /\ agent_id \notin DOMAIN am'.agent_tasks
                      /\ call'.op = "stop_agent.removed" /\ call'.ret = TRUE
             /\ pc # "none" => Registered(am, agent_id)
             /\ pc = "stopping" => \A ok \in BOOLEAN : ENABLED StopAgentStopped(agent_id, ok)
             /\ pc = "stopped" => \A ok \in BOOLEAN : ENABLED StopAgentRemove(agent_id, ok)
             /\ (Registered(am, agent_id) /\ ~Registered(am', agent_id)) => pc = "stopped"
             /\ (agent_id <= am.next_id /\ ~Registered(am, agent_id)) =>
                   /\ ~Registered(am', agent_id)
                   /\ \A agent_type \in Range(PoolTypes) :
                         agent_id \notin Range(get_available_agents(am', agent_type))]_vars

\* stop_agent has removed an agent whose worker is still running the task the
\* agent held
C26_Witness ==
    /\ call.op = "stop_agent.removed"
    /\ call.ret = TRUE
    /\ ~Registered(am, call.agent)
    /\ \E task_id \in tq.processing_tasks :
          /\ AssignedTo(tq, task_id) = call.agent
          /\ BagIn(Worker(call.agent, task_id, "run"), workers)

\* C27: at most one of result and error is set on a task: the error only
\* while the task is failed, the result only while it is completed; and a
\* status query finds every submitted task and reports the stored result of a
\* completed task, the stored error of a failed task, and neither otherwise.
C27_ResultXorError ==
    \A task_id \in Submitted :
        LET task == tq.tasks[task_id]
            status == get_task_status(tq, task_id)
        IN /\ task.error # NoValue => task.status = "failed"
           /\ task.result # NoValue => task.status = "completed"
           /\ ~(task.result # NoValue /\ task.error # NoValue)
           /\ status.status = task.status
           /\ status.result = (IF task.status = "completed" THEN task.result ELSE NoValue)
           /\ status.error = (IF task.status = "failed" THEN task.error ELSE NoValue)
           /\ status.result # NoValue => status.status = "completed"
           /\ status.error # NoValue => status.status = "failed"

\* a task that had failed and was retried is completed: it has a result and
\* no error
C27_Witness ==
    \E task_id \in Submitted :
        /\ Moved(task_id, "processing", "failed")
        /\ StatusOf(tq, task_id) = "completed"
        /\ tq.tasks[task_id].result = Result
        /\ tq.tasks[task_id].error = NoValue
        /\ get_task_status(tq, task_id).result = Result

\* the agents the health sweep has to leave alone: those in STARTING, STOPPING
\* or STOPPED and those whose last heartbeat is within the timeout at the
\* time nowc the sweep took when it started
SweepExempt(m, agent_id, nowc) ==
    \/ m.agents[agent_id].state \in {STARTING, STOPPING, STOPPED}
    \/ ~Stale(m, agent_id, nowc)

\* a step of the control loop inside check_agent_health / _handle_agent_failure
SweepStep ==
    \/ MainLoop
    \/ \E ok \in BOOLEAN : SweepHandleFailure(ok)
    \/ \E ok \in BOOLEAN : SweepPublished(ok)

\* C28 as stated. A call of the sweep before the interval has elapsed does
\* not record a sweep, sets no agent to ERROR, takes no task from an agent
\* and publishes nothing. A step of an executed sweep sets no exempt agent to
\* ERROR and takes no task from an exempt agent. No step of the sweep changes
\* completed_tasks or failed_tasks, and pending_tasks and processing_tasks
\* change only in the scheduling pass that follows the sweep in the same
\* iteration of the loop.
C28_SweepFrame ==
    [][SweepStep =>
          LET nowc == IF main.pc = "top" THEN now ELSE main.now
              early == main.pc = "top" /\ now - am.last_health_check < health_check_interval
          IN /\ early =>
                   /\ am'.last_health_check = am.last_health_check
                   /\ main'.pc \in {"top", "pass"}
                   /\ events' = events
             /\ \A agent_id \in DOMAIN am.agents :
                   (early \/ SweepExempt(am, agent_id, nowc)) =>
                      /\ Registered(am', agent_id)
                      /\ am'.agents[agent_id].state = ERROR
                            => am.agents[agent_id].state = ERROR
                      /\ Range(am.agents[agent_id].current_tasks)
                            \subseteq Range(am'.agents[agent_id].current_tasks)
                      /\ am.agent_tasks[agent_id] \subseteq am'.agent_tasks[agent_id]
             /\ tq'.completed_tasks = tq.completed_tasks
             /\ tq'.failed_tasks = tq.failed_tasks
             /\ main'.pc \in {"sweep_err", "sweep_pub"} => tq' = tq]_vars

\* C28, the parts that hold: a call of the sweep before the interval has
\* elapsed changes nothing in the registry before the scheduling pass starts,
\* and no step of the sweep writes to a partition of the Task Store.
C28_EarlyAndStore ==
    [][SweepStep =>
          LET early == main.pc = "top" /\ now - am.last_health_check < health_check_interval
          IN /\ early =>
                   /\ am'.last_health_check = am.last_health_check
                   /\ main'.pc \in {"top", "pass"}
                   /\ events' = events
                   /\ \A agent_id \in DOMAIN am.agents :
                         /\ Registered(am', agent_id)
                         /\ am'.agents[agent_id].state = ERROR
                               => am.agents[agent_id].state = ERROR
                         /\ Range(am.agents[agent_id].current_tasks)
                               \subseteq Range(am'.agents[agent_id].current_tasks)
                         /\ am.agent_tasks[agent_id] \subseteq am'.agent_tasks[agent_id]
             /\ tq'.completed_tasks = tq.completed_tasks
             /\ tq'.failed_tasks = tq.failed_tasks
             /\ main'.pc \in {"sweep_err", "sweep_pub"} => tq' = tq]_vars

\* a report for the task is on its way: a task.completed / task.failed event
\* for it is published and not yet handled, or complete_task / fail_task of
\* the registry has released it and is in the publishes that end with that
\* event
ReportPending(task_id) ==
    \/ \E i \in DOMAIN events : events[i].task_id = task_id
    \/ \E agent_id \in AgentIds, type \in {"task.completed", "task.failed"} :
          BagIn(Worker(agent_id, task_id, type), workers)

\* C29: no task is orphaned in processing. Every task in processing_tasks is
\* held by the registered agent its assigned_to names, or a report for it is
\* on its way.
C29_NoOrphan ==
    \A task_id \in tq.processing_tasks :
        \/ /\ Registered(am, AssignedTo(tq, task_id))
           /\ task_id \in Held(AssignedTo(tq, task_id))
        \/ ReportPending(task_id)

\* C30: the Task Store lock never deadlocks. Whenever the lock is held, the
\* scheduling pass holds it and its next step (assign_task goes on after its
\* publishes) can be taken, lock held or not and whatever the publish did;
\* the lock is always released again; and a task event that arrives while the
\* lock is held is eventually handled, which needs the lock.
C30_NoDeadlock ==
    /\ [](tq.lock => /\ main.pc = "pass"
                     /\ \A ok \in BOOLEAN : ENABLED PassResume(ok))
    /\ [](~tq.lock => (events = <<>> \/ ENABLED HandleTaskEvent))
    /\ (tq.lock ~> ~tq.lock)
    /\ ((tq.lock /\ events # <<>>) ~> (call.op \in {"task.completed", "task.failed"}))

\* a task event is waiting for the lock while the scheduling pass, which holds
\* it, is suspended inside assign_task of the registry
C30_Witness ==
    /\ tq.lock
    /\ call.op = "am.assign_task"
    /\ call.ret = TRUE
    /\ events # <<>>

====
